---- MODULE Spec2Model ----
(***************************************************************************)
(* The event-driven backtester of src/: the dispatch loop (main.py), the   *)
(* historic bar feed (data.py), the events (event.py), the naive portfolio *)
(* ledger (portfolio.py) and the Interactive Brokers execution gateway     *)
(* (ib_execution.py).                                                      *)
(*                                                                         *)
(* Values.  A Python float is <<v>>, v an integer count of 0.001 USD (or   *)
(* of whatever the column holds), and NaN is <<>>.  Python's None is the   *)
(* record None.  A dict is a function over its keys.  A CSV index label    *)
(* (the text of a timestamp) is the number of its day.                     *)
(*                                                                         *)
(* Four places of the source cannot run as written; the model reads them   *)
(* the way every other line that touches them does, and says so where the  *)
(* definition stands: data.py:109 (the generator names self.symbol_data,   *)
(* not the symbol's rows), portfolio.py:107 (current_holdings is returned  *)
(* wrapped in a list), event.py:81-84 (OrderEvent stores no attribute) and *)
(* ib_execution.py:69 (create_fill_dict_entrp).                            *)
(***************************************************************************)
EXTENDS Integers, Sequences, FiniteSets, TLC

\* ------------------------------------------------------------------ bounds
\* Days a CSV file may hold a row for: 1..MaxT.
MaxT == 3
\* Signals the strategy emits in one run, and on one Market event.
MaxSignals == 2
MaxBatch == 1
\* Server messages the broker connection delivers in one run.
MaxMsgs == 2
\* Largest N asked of get_latest_bars.
MaxN == 2
\* Events a caller hands a ledger driven on its own.
MaxLog == 3
\* Events a producer has on the queue at a time.
MaxQueue == 2
\* Longest series handed to the functions of performance.py.
MaxLen == 4

VARIABLES
    pc,                  \* where the main thread of main.py stands
    event,               \* main.py:19, the event last taken off the queue
    events,              \* the event queue
    fault,               \* the exception that ended the run, or "none"
    csv,                 \* the CSV files: the days each symbol has a row for
    symbol_list,         \* HistoricCSVDataHandler.symbol_list
    symbol_data,         \* per symbol, the rows its iterator has yet to yield
    latest_symbol_data,  \* per symbol, the bars seen so far
    continue_backtest,
    all_position, current_positions, all_holdings, current_holdings,
    order_id, fill_dict, \* IBExecutionHandler
    tws,                 \* the orders placed with the broker
    msgs,                \* server messages delivered so far
    nsignals,            \* signals emitted so far
    reply,               \* what the last get_latest_bars query returned
    log,                 \* the events handed to the ledger so far, in order
    call,                \* the arguments of a call made on its own, or None
    ret                  \* what that call returned or raised, or None

feed    == <<csv, symbol_list, symbol_data, latest_symbol_data, continue_backtest>>
ledger  == <<all_position, current_positions, all_holdings, current_holdings>>
gateway == <<order_id, fill_dict, tws, msgs>>
probe   == <<call, ret>>
vars    == <<pc, event, events, fault, feed, ledger, gateway, nsignals, reply,
             log, probe>>

\* ------------------------------------------------------------------ values
Symbols == {"A", "B"}
None    == [type |-> "NoneType"]
NaN     == <<>>
Num(v)  == <<v>>
FAdd(a, b) == IF a = NaN \/ b = NaN THEN NaN ELSE <<a[1] + b[1]>>
FSub(a, b) == IF a = NaN \/ b = NaN THEN NaN ELSE <<a[1] - b[1]>>
FMul(a, b) == IF a = NaN \/ b = NaN THEN NaN ELSE <<a[1] * b[1]>>

Range(seq) == {seq[i] : i \in DOMAIN seq}
Max(S)     == CHOOSE x \in S : \A y \in S : y <= x
Min(a, b)  == IF a <= b THEN a ELSE b

\* A sorted sequence of the members of a set of integers: the rows of a CSV
\* file come in the order of their timestamps.
RECURSIVE Sorted(_)
Sorted(S) == IF S = {} THEN <<>>
             ELSE LET m == CHOOSE x \in S : \A y \in S : x <= y
                  IN  <<m>> \o Sorted(S \ {m})

\* -------------------------------------------------------------- event.py
\* MarketEvent.__init__
MarketEvent == [type |-> "MARKET"]

\* SignalEvent.__init__(symbol, datetime, signal_type): the four attributes
\* it stores.  It takes and stores no strength.
SignalEvent(symbol, datetime, signal_type) ==
    [type |-> "SIGNAL", symbol |-> symbol, datetime |-> datetime,
     signal_type |-> signal_type]

\* The assertion of SignalEvent.__init__, line 60.
SignalEventAccepts(signal_type) == signal_type \in {"LONG", "SHORT", "EXIT"}

\* A Python number given as a quantity: an int, or a float counted in
\* thousandths.
PyInt(n)   == [int |-> TRUE,  milli |-> 1000 * n]
PyFloat(m) == [int |-> FALSE, milli |-> m]

\* An OrderEvent.__init__ that asserts nothing.
OrderEventUnchecked(order_type, quantity, direction) == TRUE

\* The assertions of OrderEvent.__init__, lines 81-84, on any number.
OrderEventAsserts(order_type, quantity, direction) ==
    /\ order_type \in {"MKT", "LMT"}
    /\ quantity.milli >= 0
    /\ quantity.int
    /\ direction \in {"BUY", "SELL"}

\* The same on a quantity that is an int, as everywhere in the run.
OrderEventAccepts(order_type, quantity, direction) ==
    OrderEventAsserts(order_type, PyInt(quantity), direction)

\* OrderEvent.__init__(symbol, order_type, quantity, direction).  The source
\* stops after its assertions and assigns nothing; print_order, the dispatch
\* loop (event.type) and execute_order read type, symbol, order_type,
\* quantity and direction, which is what the model stores.
OrderEvent(symbol, order_type, quantity, direction) ==
    [type |-> "ORDER", symbol |-> symbol, order_type |-> order_type,
     quantity |-> quantity, direction |-> direction]

\* max and min of two floats.
FMax(a, b) == IF a[1] >= b[1] THEN a ELSE b
FMin(a, b) == IF a[1] <= b[1] THEN a ELSE b

\* FillEvent.caculate_ib_commission, in 0.001 USD: 1.3 is 1300, 0.013 a
\* share is 13, 0.008 a share is 8, and 0.5 / 100.0 of quantity * fill_cost
\* is a 200th of it.
CaculateIbCommission(quantity, fill_cost) ==
    LET full_cost == IF quantity <= 500
                     THEN FMax(Num(1300), Num(13 * quantity))
                     ELSE FMax(Num(1300), Num(8 * quantity))
    IN  FMin(full_cost, Num((quantity * fill_cost[1]) \div 200))

\* FillEvent.__init__ with commission left None.
FillEvent(timeindex, symbol, exchange, quantity, direction, fill_cost) ==
    [type |-> "FILL", timeindex |-> timeindex, symbol |-> symbol,
     exchange |-> exchange, quantity |-> quantity, direction |-> direction,
     fill_cost |-> fill_cost,
     commission |-> CaculateIbCommission(quantity, fill_cost)]

\* What a call returned or raised.
Returned(value) == [exc |-> "none", value |-> value]
Raised(exc)     == [exc |-> exc, value |-> None]

\* -------------------------------------------------------------- data.py
\* What a CSV file holds for symbol s on day l, columns open, low, high,
\* close, volume, oi: the close tells the symbol and the day.
CsvFields(s, l) ==
    LET close == IF s = "A" THEN (10 + l) * 1000 ELSE (20 + 2 * l) * 1000
    IN  <<Num(close - 500), Num(close - 1000), Num(close + 1000), Num(close),
          Num(100 * l), Num(0)>>

\* read_csv(..., index_col=0): the frame of symbol s, a row per day of the
\* file, <<label, fields>>, in the file's order.
ReadCsv(files, s) ==
    LET days == Sorted(files[s])
    IN  [i \in 1..Len(days) |-> <<days[i], CsvFields(s, days[i])>>]

FrameIndex(frame) == [i \in 1..Len(frame) |-> frame[i][1]]

\* The loop of lines 82-97 over symbol_list[i..]: comb_index is the index of
\* the first frame; for every later frame the result of
\* comb_index.union(...) is not assigned, so comb_index stays what it is.
RECURSIVE CombIndex(_, _, _, _, _)
CombIndex(files, list, i, isNone, comb) ==
    IF i > Len(list) THEN comb
    ELSE IF isNone
         THEN CombIndex(files, list, i + 1, FALSE,
                        FrameIndex(ReadCsv(files, list[i])))
         ELSE CombIndex(files, list, i + 1, FALSE, comb)

NaNFields == <<NaN, NaN, NaN, NaN, NaN, NaN>>

\* DataFrame.reindex(index=comb_index, method='pad'): a row per label of
\* comb_index, holding the fields of the frame's last row whose label is not
\* later, and NaN in every column when the frame has none.
Reindex(frame, comb) ==
    [i \in 1..Len(comb) |->
        LET prior == {j \in 1..Len(frame) : frame[j][1] <= comb[i]}
        IN  <<comb[i], IF prior = {} THEN NaNFields ELSE frame[Max(prior)][2]>>]

\* An _open_convert_csv_files that keeps every frame on its own index.
OpenConvertCsvFilesAsRead(files, list) ==
    [s \in Range(list) |-> ReadCsv(files, s)]

\* _open_convert_csv_files: symbol_data after construction, the iterrows()
\* iterator of each reindexed frame as the rows it has yet to yield.
OpenConvertCsvFiles(files, list) ==
    [s \in Range(list) |->
        Reindex(ReadCsv(files, s), CombIndex(files, list, 1, TRUE, <<>>))]

\* datetime.strptime(b[0], '%Y-%m-%d %H:%M:%S'): the instant, in seconds, of
\* the day a label names.
Strptime(label) == label * 86400

\* _get_new_bar(symbol): the tuple built from row b.  Line 109 iterates
\* self.symbol_data, the dict itself; the rows it unpacks (b[0] a label,
\* b[1] the fields) are those of self.symbol_data[symbol], which is what the
\* model hands it.
GetNewBar(symbol, b) ==
    <<symbol, Strptime(b[1]), b[2][1], b[2][2], b[2][3], b[2][4], b[2][5]>>

\* What a Python call returns: None, or a list.
NoneReturn       == [kind |-> "None"]
ListReturn(list) == [kind |-> "list", items |-> list]

\* list[start:], start negative, zero or positive.
PySliceFrom(list, start) ==
    LET n    == Len(list)
        from == IF start < 0 THEN (IF n + start < 0 THEN 0 ELSE n + start)
                ELSE (IF start > n THEN n ELSE start)
    IN  SubSeq(list, from + 1, n)

\* get_latest_bars(symbol, N): for an unknown symbol the except branch
\* prints and the function falls off its end.
GetLatestBars(latest, symbol, N) ==
    IF symbol \notin DOMAIN latest THEN NoneReturn
    ELSE ListReturn(PySliceFrom(latest[symbol], 0 - N))

\* update_bars, lines 135-142: the loop over symbol_list.
UpdateBarsData(data) ==
    [s \in DOMAIN data |-> IF data[s] = <<>> THEN <<>> ELSE Tail(data[s])]

UpdateBarsLatest(data, latest) ==
    [s \in DOMAIN latest |->
        IF data[s] = <<>> THEN latest[s]
        ELSE Append(latest[s], GetNewBar(s, Head(data[s])))]

UpdateBarsContinue(data, list, flag) ==
    IF \E i \in DOMAIN list : data[list[i]] = <<>> THEN FALSE ELSE flag

\* update_bars, line 143: the Market event is put whatever the loop found.
UpdateBarsQueue(queue) == Append(queue, MarketEvent)

\* --------------------------------------------------------- portfolio.py
\* NaivePortfolio.__init__(bars, events, start_date, init_capital=100000.0):
\* the start date, before every bar, and the starting capital in 0.001 USD.
StartDate   == 0
InitCapital == 100000000

\* dict((k,v) for k,v in [(s,0) for s in self.symbol_list])
ZeroDict(list) == [s \in Range(list) |-> 0]
ZeroValues(list) == [s \in Range(list) |-> Num(0)]

ConstructAllPositions(list) ==
    << ZeroDict(list) @@ ("datetime" :> StartDate) >>

ConstructAllHoldings(list) ==
    << ZeroValues(list) @@ ("datetime" :> StartDate) @@
       ("cash" :> Num(InitCapital)) @@ ("commission" :> Num(0)) @@
       ("total" :> Num(InitCapital)) >>

\* construct_current_holdings builds the same dict without a datetime.  Line
\* 107 returns it wrapped in a list, [d]; update_timeindex and
\* update_holdings_from_fill index current_holdings by 'cash', 'commission',
\* 'total' and by symbol, so the model keeps the dict d.
ConstructCurrentHoldings(list) ==
    ZeroValues(list) @@ ("cash" :> Num(InitCapital)) @@
    ("commission" :> Num(0)) @@ ("total" :> Num(InitCapital))

\* update_timeindex, line 118: the latest bar of every symbol.
LatestBars(latest, list) ==
    [s \in Range(list) |-> GetLatestBars(latest, s, 1).items]

\* update_timeindex, lines 121-124: the positions row.
PositionsRow(bars, list, positions) ==
    [s \in Range(list) |-> positions[s]] @@
    ("datetime" :> bars[list[1]][1][2])

\* update_timeindex, lines 133-137 over symbol_list[i..]: each symbol's
\* market value goes into the row and is added to its total.
RECURSIVE MarkToMarket(_, _, _, _, _)
MarkToMarket(dh, bars, list, positions, i) ==
    IF i > Len(list) THEN dh
    ELSE LET s          == list[i]
             market_val == FMul(Num(positions[s]), bars[s][1][6])
         IN  MarkToMarket([dh EXCEPT ![s] = market_val,
                                     !["total"] = FAdd(@, market_val)],
                          bars, list, positions, i + 1)

\* update_timeindex, lines 128-137: the holdings row.
HoldingsRow(bars, list, positions, holdings) ==
    MarkToMarket(ZeroValues(list) @@
                 ("datetime" :> bars[list[1]][1][2]) @@
                 ("cash" :> holdings["cash"]) @@
                 ("commission" :> holdings["commission"]) @@
                 ("total" :> holdings["cash"]),
                 bars, list, positions, 1)

\* An update_timeindex that writes its rows over the last ones.
UpdateTimeindexOverwriting(latest, list, positions, holdings, all_pos, all_hold) ==
    LET bars == LatestBars(latest, list)
    IN  IF \E i \in DOMAIN list : bars[list[i]] = <<>>
        THEN [exc |-> "IndexError", all_position |-> all_pos,
              all_holdings |-> all_hold]
        ELSE [exc |-> "none",
              all_position |->
                  [all_pos EXCEPT ![Len(all_pos)] =
                                      PositionsRow(bars, list, positions)],
              all_holdings |->
                  [all_hold EXCEPT ![Len(all_hold)] =
                       HoldingsRow(bars, list, positions, holdings)]]

\* An update_timeindex that appends no row.
UpdateTimeindexSkipped(latest, list, positions, holdings, all_pos, all_hold) ==
    [exc |-> "none", all_position |-> all_pos, all_holdings |-> all_hold]

\* An update_timeindex that values a symbol without a bar at zero and stamps
\* the rows with the start date instead of raising.
UpdateTimeindexSilent(latest, list, positions, holdings, all_pos, all_hold) ==
    LET bars  == LatestBars(latest, list)
        blank == <<"", StartDate, Num(0), Num(0), Num(0), Num(0), Num(0)>>
        seen  == [s \in Range(list) |->
                     IF bars[s] = <<>> THEN <<blank>> ELSE bars[s]]
    IN  [exc |-> "none",
         all_position |-> Append(all_pos, PositionsRow(seen, list, positions)),
         all_holdings |->
             Append(all_hold, HoldingsRow(seen, list, positions, holdings))]

\* update_timeindex as a whole: the two series after the call and the
\* exception it raised.  bars[symbol_list[0]][0] at line 122 raises before
\* anything is appended; bars[s][0] at line 135 raises after the positions
\* row was appended at line 125.
UpdateTimeindex(latest, list, positions, holdings, all_pos, all_hold) ==
    LET bars == LatestBars(latest, list)
    IN  IF bars[list[1]] = <<>>
        THEN [exc |-> "IndexError", all_position |-> all_pos,
              all_holdings |-> all_hold]
        ELSE IF \E i \in DOMAIN list : bars[list[i]] = <<>>
        THEN [exc |-> "IndexError",
              all_position |->
                  Append(all_pos, PositionsRow(bars, list, positions)),
              all_holdings |-> all_hold]
        ELSE [exc |-> "none",
              all_position |->
                  Append(all_pos, PositionsRow(bars, list, positions)),
              all_holdings |->
                  Append(all_hold,
                         HoldingsRow(bars, list, positions, holdings))]

\* fill_dir of update_positions_from_fill and update_holdings_from_fill.
FillDir(fill) == IF fill.direction = "SELL" THEN -1
                 ELSE IF fill.direction = "BUY" THEN 1 ELSE 0

\* An update_positions_from_fill that adds the quantity whatever the side.
UpdatePositionsFromFillAdding(positions, fill) ==
    [positions EXCEPT ![fill.symbol] = @ + fill.quantity]

\* update_positions_from_fill
UpdatePositionsFromFill(positions, fill) ==
    [positions EXCEPT ![fill.symbol] = @ + FillDir(fill) * fill.quantity]

\* update_holdings_from_fill, lines 174-179: the price is the close of the
\* symbol's latest bar.
UpdateHoldingsFromFill(holdings, latest, fill) ==
    LET fill_price == GetLatestBars(latest, fill.symbol, 1).items[1][6]
        fill_cost  == FMul(Num(FillDir(fill) * fill.quantity), fill_price)
        debit      == FAdd(fill_cost, fill.commission)
    IN  [holdings EXCEPT ![fill.symbol]  = FAdd(@, fill_cost),
                         !["commission"] = FAdd(@, fill.commission),
                         !["cash"]       = FSub(@, debit),
                         !["total"]      = FSub(@, debit)]

\* What get_latest_bars(fill.symbol)[0][5] at line 174 raises, if anything.
FillRaises(latest, fill) ==
    LET got == GetLatestBars(latest, fill.symbol, 1)
    IN  IF got.kind = "None" THEN "TypeError"
        ELSE IF got.items = <<>> THEN "IndexError"
        ELSE "none"

\* floor(100 * strength), the strength counted in thousandths.
MktQuantity(strength) == (100 * strength) \div 1000

Abs(n) == IF n < 0 THEN 0 - n ELSE n

\* generate_naive_order, lines 220-230, for a signal that has a strength
\* and a tracked symbol: the order, or None.
NaiveOrder(signal, cur_quantity) ==
    LET direction    == signal.signal_type
        mkt_quantity == MktQuantity(signal.strength)
    IN  IF direction = "LONG" /\ cur_quantity = 0
        THEN OrderEvent(signal.symbol, "MKT", mkt_quantity, "BUY")
        ELSE IF direction = "SHORT" /\ cur_quantity = 0
        THEN OrderEvent(signal.symbol, "MKT", mkt_quantity, "SELL")
        ELSE IF direction = "EXIT" /\ cur_quantity > 0
        THEN OrderEvent(signal.symbol, "MKT", Abs(cur_quantity), "SELL")
        ELSE IF direction = "EXIT" /\ cur_quantity < 0
        THEN OrderEvent(signal.symbol, "MKT", Abs(cur_quantity), "BUY")
        ELSE None

\* What generate_naive_order raises, if anything: signal.strength at line
\* 214 on a signal that has none, self.current_positions[symbol] at line 217
\* on a symbol the portfolio does not track, an assertion of OrderEvent.
SignalRaises(signal, positions) ==
    IF "strength" \notin DOMAIN signal THEN "AttributeError"
    ELSE IF signal.symbol \notin DOMAIN positions THEN "KeyError"
    ELSE LET order == NaiveOrder(signal, positions[signal.symbol])
         IN  IF order # None /\ ~OrderEventAccepts(order.order_type,
                                                    order.quantity,
                                                    order.direction)
             THEN "AssertionError" ELSE "none"

\* An update_signal that puts an order only when there is one to put.
UpdateSignalOrdersOnly(queue, signal, positions) ==
    LET order_event == NaiveOrder(signal, positions[signal.symbol])
    IN  IF order_event = None THEN queue ELSE Append(queue, order_event)

\* update_signal, lines 199-201: whatever generate_naive_order returned is
\* put on the queue, None included.
UpdateSignal(queue, signal, positions) ==
    Append(queue, NaiveOrder(signal, positions[signal.symbol]))

\* ------------------------------------------------------ ib_execution.py
\* create_init_order_id
InitOrderId == 1

\* execute_order, lines 212-225: what placeOrder hands the broker.
PlacedOrder(id, order) ==
    [orderId  |-> id,
     contract |-> [m_symbol |-> order.symbol, m_secType |-> "STK",
                   m_exchange |-> "SMART", m_primaryExch |-> "SMART",
                   m_currency |-> "USD"],
     order    |-> [m_orderType |-> order.order_type,
                   m_totalQuantity |-> order.quantity,
                   m_action |-> order.direction]]

\* The server's messages about a placed order.
OpenOrderMsg(placed) ==
    [typeName |-> "openOrder", orderId |-> placed.orderId,
     contract |-> placed.contract, order |-> placed.order]

OrderStatusMsg(placed, status, price) ==
    [typeName |-> "orderStatus", orderId |-> placed.orderId,
     status |-> status, filled |-> placed.order.m_totalQuantity,
     avgFillPrice |-> price]

\* create_fill_dict_entry (line 69 calls it create_fill_dict_entrp).
CreateFillDictEntry(dict, msg) ==
    (msg.orderId :> [symbol    |-> msg.contract.m_symbol,
                     exchange  |-> msg.contract.m_exchange,
                     direction |-> msg.order.m_action,
                     filled    |-> FALSE]) @@ dict

\* The wall clock of create_fill, datetime.datetime.utcnow().
Utcnow == "utcnow"

\* create_fill, lines 172-185: the Fill event.
CreateFill(dict, msg) ==
    LET fd == dict[msg.orderId]
    IN  FillEvent(Utcnow, fd.symbol, fd.exchange, msg.filled, fd.direction,
                  msg.avgFillPrice)

\* _reply_handler, lines 66-69: the fill dictionary after an openOrder.
ReplyOpenOrder(dict, id, msg) ==
    IF msg.typeName = "openOrder" /\ msg.orderId = id
       /\ msg.orderId \notin DOMAIN dict
    THEN CreateFillDictEntry(dict, msg)
    ELSE dict

\* _reply_handler, lines 72-74: whether the message creates a fill.  A
\* Filled status for an id without an entry raises KeyError in the
\* connection's thread, and nothing is created.
ReplyCreatesFill(dict, msg) ==
    /\ msg.typeName = "orderStatus"
    /\ msg.status = "Filled"
    /\ msg.orderId \in DOMAIN dict
    /\ dict[msg.orderId].filled = FALSE

\* _reply_handler as a whole (line 76, the print, raises after the work is
\* done): the fill dictionary and the queue after the message.
ReplyHandlerDict(dict, id, msg) ==
    LET opened == ReplyOpenOrder(dict, id, msg)
    IN  IF ReplyCreatesFill(opened, msg)
        THEN [opened EXCEPT ![msg.orderId].filled = TRUE]
        ELSE opened

ReplyHandlerQueue(queue, dict, id, msg) ==
    LET opened == ReplyOpenOrder(dict, id, msg)
    IN  IF ReplyCreatesFill(opened, msg)
        THEN Append(queue, CreateFill(opened, msg))
        ELSE queue

\* -------------------------------------------------------- performance.py
\* A series handed to performance.py is a Python list or a pandas Series,
\* the Series indexed 0..n-1 ("range") or by timestamps ("datetime", where
\* an integer key is a position); its values are counted in thousandths.
\* The truth value of a list is whether it has items; asking a Series for
\* its truth value raises ValueError.
PyList(values)          == [kind |-> "list", index |-> "none", values |-> values]
PdSeries(index, values) == [kind |-> "Series", index |-> index, values |-> values]

RECURSIVE SumOf(_)
SumOf(seq) == IF seq = <<>> THEN 0 ELSE Head(seq) + SumOf(Tail(seq))

SumOfSquares(seq) == SumOf([i \in DOMAIN seq |-> seq[i] * seq[i]])

\* line 17, the periods in a year: 252, 252*6.5, 252*6.5*60.
Period(periods) ==
    IF periods = "Daily" THEN 252 ELSE IF periods = "Hour" THEN 1638 ELSE 98280

\* line 18, np.sqrt(period) * np.mean(returns) / np.std(returns), kept exact:
\* with S the sum of the n returns and Q the sum of their squares the ratio
\* has the sign of S and the square period * S^2 / (n * Q - S^2).  A standard
\* deviation of zero divides by zero: numpy warns and the quotient is inf,
\* -inf or nan.
SharpeValue(values, periods) ==
    LET S   == SumOf(values)
        den == Len(values) * SumOfSquares(values) - S * S
        sgn == IF S > 0 THEN 1 ELSE IF S < 0 THEN -1 ELSE 0
    IN  IF den = 0
        THEN [kind |-> IF S = 0 THEN "nan" ELSE "inf", sign |-> sgn,
              num |-> 0, den |-> 0]
        ELSE [kind |-> "finite", sign |-> sgn,
              num |-> Period(periods) * S * S, den |-> den]

\* A get_sharpe_ratio that leaves out the assertion on risk_free.
GetSharpeRatioAnyRate(returns, risk_free, periods) ==
    IF returns.kind = "Series" \/ returns.values = <<>>
    THEN Raised("ValueError")
    ELSE IF periods \notin {"Daily", "Hour", "Minute"}
    THEN Raised("AssertionError")
    ELSE Returned(SharpeValue(returns.values, periods))

\* get_sharpe_ratio, lines 12-18; risk_free in thousandths.
GetSharpeRatio(returns, risk_free, periods) ==
    IF returns.kind = "Series" \/ returns.values = <<>>
    THEN Raised("ValueError")
    ELSE IF periods \notin {"Daily", "Hour", "Minute"}
    THEN Raised("AssertionError")
    ELSE IF ~(risk_free >= 0 /\ risk_free <= 1000)
    THEN Raised("AssertionError")
    ELSE Returned(SharpeValue(returns.values, periods))

\* create_drawdowns, lines 28 and 35-36: hwm after k points.  hwm starts as
\* [0]; the point t compares with hwm[t-1], which at t = 0 is hwm[-1], the 0.
RECURSIVE Hwm(_, _)
Hwm(values, k) ==
    IF k = 0 THEN 0
    ELSE LET before == IF k = 1 THEN 0 ELSE Hwm(values, k - 2)
         IN  IF before >= values[k] THEN before ELSE values[k]

\* line 38, drawdown[t] = hwm[t] - equity_curve[t], for t = k - 1.
Drawdown(values, k) == Hwm(values, k - 1) - values[k]

\* line 39, duration[t] for t = k - 1, on a Series indexed by timestamps: at
\* t = 0 duration[t-1] is duration[-1], the last item, which is still nan.
RECURSIVE Duration(_, _)
Duration(values, k) ==
    IF Drawdown(values, k) = 0 THEN Num(0)
    ELSE IF k = 1 THEN NaN
    ELSE FAdd(Duration(values, k - 1), Num(1))

\* line 42, sorted(..., key=lambda obj:obj[0], reverse=True): by the first
\* item, largest first, equal ones in their given order.
RECURSIVE SortedByFirst(_)
SortedByFirst(pairs) ==
    IF pairs = <<>> THEN <<>>
    ELSE LET rest == SortedByFirst(SubSeq(pairs, 1, Len(pairs) - 1))
             x    == pairs[Len(pairs)]
             keep == SelectSeq(rest, LAMBDA p : p[1] >= x[1])
             tail == SelectSeq(rest, LAMBDA p : p[1] < x[1])
         IN  keep \o <<x>> \o tail

\* create_drawdowns.  A list has no index to iterate (list.index is a
\* method): TypeError.  On a Series indexed 0..n-1 duration[-1] at line 39 is
\* a label that is not there: KeyError, unless the first drawdown is 0.
CreateDrawdowns(equity_curve) ==
    LET values == equity_curve.values
    IN  IF equity_curve.kind = "list" THEN Raised("TypeError")
        ELSE IF /\ equity_curve.index = "range"
                /\ values # <<>>
                /\ Drawdown(values, 1) # 0
        THEN Raised("KeyError")
        ELSE Returned(SortedByFirst([k \in DOMAIN values |->
                          <<Drawdown(values, k), Duration(values, k)>>]))

\* get_max_drawdowns, lines 51-54.
GetMaxDrawdowns(equity_curve) ==
    IF equity_curve.kind = "Series" \/ equity_curve.values = <<>>
    THEN Raised("ValueError")
    ELSE LET res == CreateDrawdowns(equity_curve)
         IN  IF res.exc # "none" THEN res
             ELSE IF res.value = <<>> THEN Raised("IndexError")
             ELSE Returned(res.value[1])

\* ------------------------------------------------------------ the strategy
\* The strategy is not part of src/.  On a Market event it puts signals on
\* the queue, each built by SignalEvent for a tracked symbol and dated by the
\* latest bar; it may give a signal a strength attribute, which SignalEvent
\* itself does not.  The strength it gives is 1.0, in thousandths.
Strengths == {1000}

SignalDate(latest, list) ==
    LET seen == latest[list[1]]
    IN  IF seen = <<>> THEN StartDate ELSE seen[Len(seen)][2]

SignalChoices(latest, list) ==
    LET plain == {SignalEvent(sym, SignalDate(latest, list), d) :
                     sym \in Range(list), d \in {"LONG", "SHORT", "EXIT"}}
    IN  plain \cup {sig @@ ("strength" :> st) : sig \in plain, st \in Strengths}

RECURSIVE Batches(_, _)
Batches(choices, k) ==
    IF k = 0 THEN {<<>>}
    ELSE LET shorter == Batches(choices, k - 1)
         IN  shorter \cup {Append(b, x) :
                              b \in {c \in shorter : Len(c) = k - 1},
                              x \in choices}

\* --------------------------------------------------------------- main.py
\* The state after the components are constructed, lines 3-6.
InitWith(files, list) ==
    /\ pc = "outer"
    /\ event = None
    /\ events = <<>>
    /\ fault = "none"
    /\ csv = files
    /\ symbol_list = list
    /\ symbol_data = OpenConvertCsvFiles(files, list)
    /\ latest_symbol_data = [s \in Range(list) |-> <<>>]
    /\ continue_backtest = TRUE
    /\ all_position = ConstructAllPositions(list)
    /\ current_positions = ZeroDict(list)
    /\ all_holdings = ConstructAllHoldings(list)
    /\ current_holdings = ConstructCurrentHoldings(list)
    /\ order_id = InitOrderId
    /\ fill_dict = <<>>
    /\ tws = <<>>
    /\ msgs = 0
    /\ nsignals = 0
    /\ reply = [asked |-> FALSE, symbol |-> "", N |-> 0, value |-> NoneReturn]
    /\ log = <<>>
    /\ call = None
    /\ ret = None

\* update_bars as a whole, data.py:130-143.
UpdateBars ==
    /\ symbol_data' = UpdateBarsData(symbol_data)
    /\ latest_symbol_data' = UpdateBarsLatest(symbol_data, latest_symbol_data)
    /\ continue_backtest' =
           UpdateBarsContinue(symbol_data, symbol_list, continue_backtest)
    /\ events' = UpdateBarsQueue(events)
    /\ UNCHANGED <<csv, symbol_list>>

\* Lines 11-12: bars.update_bars().
Advance ==
    /\ pc = "outer"
    /\ continue_backtest
    /\ UpdateBars
    /\ pc' = "inner"
    /\ UNCHANGED <<event, fault, ledger, gateway, nsignals, reply>>
    /\ UNCHANGED <<log, probe>>

\* Lines 13-14: break out of the outer loop.
Stop ==
    /\ pc = "outer"
    /\ ~continue_backtest
    /\ pc' = "stopped"
    /\ UNCHANGED <<event, events, fault, feed, ledger, gateway, nsignals,
                   reply>>
    /\ UNCHANGED <<log, probe>>

\* Lines 18-21 and 34: the queue is empty, the inner loop breaks and the
\* outer loop sleeps before its next round.
QueueEmpty ==
    /\ pc = "inner"
    /\ events = <<>>
    /\ pc' = "outer"
    /\ UNCHANGED <<event, events, fault, feed, ledger, gateway, nsignals,
                   reply>>
    /\ UNCHANGED <<log, probe>>

\* Lines 24-26: strategy.caculate_signal(event), then
\* port.update_timeindex(event).
DispatchMarket ==
    /\ pc = "inner"
    /\ events # <<>>
    /\ Head(events).type = "MARKET"
    /\ \E batch \in Batches(SignalChoices(latest_symbol_data, symbol_list),
                            Min(MaxBatch, MaxSignals - nsignals)) :
          LET out == UpdateTimeindex(latest_symbol_data, symbol_list,
                                     current_positions, current_holdings,
                                     all_position, all_holdings)
          IN  /\ event' = Head(events)
              /\ events' = Tail(events) \o batch
              /\ nsignals' = nsignals + Len(batch)
              /\ all_position' = out.all_position
              /\ all_holdings' = out.all_holdings
              /\ fault' = out.exc
              /\ pc' = IF out.exc = "none" THEN "inner" ELSE "crashed"
    /\ UNCHANGED <<feed, current_positions, current_holdings, gateway, reply>>
    /\ log' = Append(log, Head(events))
    /\ UNCHANGED probe

\* Lines 27-28: port.update_signal(event).
DispatchSignal ==
    /\ pc = "inner"
    /\ events # <<>>
    /\ Head(events).type = "SIGNAL"
    /\ event' = Head(events)
    /\ LET exc == SignalRaises(Head(events), current_positions)
       IN  /\ fault' = exc
           /\ pc' = IF exc = "none" THEN "inner" ELSE "crashed"
           /\ events' = IF exc = "none"
                        THEN UpdateSignal(Tail(events), Head(events),
                                          current_positions)
                        ELSE Tail(events)
    /\ UNCHANGED <<feed, ledger, gateway, nsignals, reply>>
    /\ log' = Append(log, Head(events))
    /\ UNCHANGED probe

\* Line 23: a None taken off the queue is dropped.
DispatchNone ==
    /\ pc = "inner"
    /\ events # <<>>
    /\ Head(events) = None
    /\ event' = Head(events)
    /\ events' = Tail(events)
    /\ UNCHANGED <<pc, fault, feed, ledger, gateway, nsignals, reply>>
    /\ UNCHANGED <<log, probe>>

\* Lines 29-30: broker.execute_order(event), up to tws_conn.placeOrder at
\* ib_execution.py:223; the main thread then sleeps a second (line 228).
DispatchOrder ==
    /\ pc = "inner"
    /\ events # <<>>
    /\ Head(events).type = "ORDER"
    /\ event' = Head(events)
    /\ events' = Tail(events)
    /\ tws' = Append(tws, PlacedOrder(order_id, Head(events)))
    /\ pc' = "placed"
    /\ UNCHANGED <<fault, feed, ledger, order_id, fill_dict, msgs, nsignals,
                   reply>>
    /\ UNCHANGED <<log, probe>>

\* ib_execution.py:229: self.order_id += 1, and execute_order returns.
ExecuteOrderReturn ==
    /\ pc = "placed"
    /\ order_id' = order_id + 1
    /\ pc' = "inner"
    /\ UNCHANGED <<event, events, fault, feed, ledger, fill_dict, tws, msgs,
                   nsignals, reply>>
    /\ UNCHANGED <<log, probe>>

\* Lines 31-32: port.update_fill(event).
DispatchFill ==
    /\ pc = "inner"
    /\ events # <<>>
    /\ Head(events).type = "FILL"
    /\ event' = Head(events)
    /\ events' = Tail(events)
    /\ LET exc == FillRaises(latest_symbol_data, Head(events))
       IN  /\ fault' = exc
           /\ pc' = IF exc = "none" THEN "inner" ELSE "crashed"
           /\ current_holdings' =
                  IF exc = "none"
                  THEN UpdateHoldingsFromFill(current_holdings,
                                              latest_symbol_data, Head(events))
                  ELSE current_holdings
           /\ current_positions' =
                  IF exc = "none"
                  THEN UpdatePositionsFromFill(current_positions, Head(events))
                  ELSE current_positions
    /\ UNCHANGED <<feed, all_position, all_holdings, gateway, nsignals, reply>>
    /\ log' = Append(log, Head(events))
    /\ UNCHANGED probe

\* The price the broker reports a fill at, in 0.001 USD: below every close
\* of the files.
FillPrices == {Num(10000)}

Running == pc \in {"outer", "inner", "placed"}

\* The connection's thread delivers a message of the server to
\* _reply_handler, at any moment of the run.
ServerOpenOrder ==
    /\ Running
    /\ msgs < MaxMsgs
    /\ \E i \in DOMAIN tws :
          LET msg == OpenOrderMsg(tws[i])
          IN  /\ fill_dict' = ReplyHandlerDict(fill_dict, order_id, msg)
              /\ events' = ReplyHandlerQueue(events, fill_dict, order_id, msg)
    /\ msgs' = msgs + 1
    /\ UNCHANGED <<pc, event, fault, feed, ledger, order_id, tws, nsignals,
                   reply>>
    /\ UNCHANGED <<log, probe>>

ServerOrderStatus ==
    /\ Running
    /\ msgs < MaxMsgs
    /\ \E i \in DOMAIN tws, price \in FillPrices :
          LET msg == OrderStatusMsg(tws[i], "Filled", price)
          IN  /\ fill_dict' = ReplyHandlerDict(fill_dict, order_id, msg)
              /\ events' = ReplyHandlerQueue(events, fill_dict, order_id, msg)
    /\ msgs' = msgs + 1
    /\ UNCHANGED <<pc, event, fault, feed, ledger, order_id, tws, nsignals,
                   reply>>
    /\ UNCHANGED <<log, probe>>

MainThread ==
    \/ Advance \/ Stop \/ QueueEmpty \/ DispatchMarket \/ DispatchSignal
    \/ DispatchNone \/ DispatchOrder \/ ExecuteOrderReturn \/ DispatchFill

\* The runs: one or two symbols, each file empty, holding day 2 alone, or
\* holding days 1 and 2.
RunLists == {<<"A">>, <<"A", "B">>}
RunFiles == {{}, {2}, {1, 2}}

Init ==
    \E list \in RunLists :
    \E files \in [Symbols -> RunFiles] :
        /\ \A s \in Symbols \ Range(list) : files[s] = {}
        /\ InitWith(files, list)

Next == MainThread \/ ServerOpenOrder \/ ServerOrderStatus

Spec == Init /\ [][Next]_vars

\* The main thread always takes its next step: every sleep returns.
FairSpec == Spec /\ WF_vars(MainThread)

\* ------------------------------------------------- the bar feed on its own
\* A HistoricCSVDataHandler driven by a caller that advances it while
\* continue_backtest holds and asks it for the latest bars of any symbol,
\* tracked or not.
FeedUpdateBars ==
    /\ continue_backtest
    /\ UpdateBars
    /\ UNCHANGED <<pc, event, fault, ledger, gateway, nsignals, reply>>
    /\ UNCHANGED <<log, probe>>

AskedSymbols == Symbols \cup {"Z"}

FeedGetLatestBars ==
    /\ \E symbol \in AskedSymbols, N \in 0..MaxN :
          reply' = [asked |-> TRUE, symbol |-> symbol, N |-> N,
                    value |-> GetLatestBars(latest_symbol_data, symbol, N)]
    /\ UNCHANGED <<pc, event, events, fault, feed, ledger, gateway, nsignals>>
    /\ UNCHANGED <<log, probe>>

FeedLists == {<<"A">>, <<"A", "B">>, <<"B", "A">>}

InitFeed ==
    \E list \in FeedLists :
    \E files \in [Symbols -> SUBSET (1..MaxT)] :
        /\ \A s \in Symbols \ Range(list) : files[s] = {}
        /\ InitWith(files, list)

NextFeed == FeedUpdateBars \/ FeedGetLatestBars

SpecFeed == InitFeed /\ [][NextFeed]_vars

\* ---------------------------------------------------- the ledger on its own
\* A NaivePortfolio over a HistoricCSVDataHandler, driven by a caller that
\* advances the feed and hands the ledger Market and Fill events of its own
\* making, at any moment: fills at any price, with the commission given or
\* left to the event.
\* FillEvent.__init__ with a commission given, lines 121-124.
FillEventWith(timeindex, symbol, exchange, quantity, direction, fill_cost, commission) ==
    [FillEvent(timeindex, symbol, exchange, quantity, direction, fill_cost)
        EXCEPT !.commission = commission]

\* The fills the caller hands in: purchases of 100 shares at 10.00 or at
\* 11.00, the commission given as zero or left to the event, and a sale of
\* 100 shares at 11.00.
LedgerFillPrices == {Num(10000), Num(11000)}

LedgerFills ==
    {FillEvent(Utcnow, s, "SMART", 100, "BUY", Num(10000)) :
        s \in Range(symbol_list)}
    \cup
    {FillEvent(Utcnow, s, "SMART", 100, "SELL", Num(11000)) :
        s \in Range(symbol_list)}
    \cup
    {FillEventWith(Utcnow, s, "SMART", 100, "BUY", p, Num(0)) :
        s \in Range(symbol_list), p \in LedgerFillPrices}

LedgerUpdateBars ==
    /\ pc = "outer"
    /\ continue_backtest
    /\ UpdateBars
    /\ UNCHANGED <<pc, event, fault, ledger, gateway, nsignals, reply, log,
                   probe>>

\* port.update_timeindex(MarketEvent())
LedgerUpdateTimeindex ==
    /\ pc = "outer"
    /\ Len(log) < MaxLog
    /\ LET out == UpdateTimeindex(latest_symbol_data, symbol_list,
                                  current_positions, current_holdings,
                                  all_position, all_holdings)
       IN  /\ all_position' = out.all_position
           /\ all_holdings' = out.all_holdings
           /\ fault' = out.exc
           /\ pc' = IF out.exc = "none" THEN "outer" ELSE "crashed"
    /\ event' = MarketEvent
    /\ log' = Append(log, MarketEvent)
    /\ UNCHANGED <<events, feed, current_positions, current_holdings, gateway,
                   nsignals, reply, probe>>

\* port.update_fill(fill)
LedgerUpdateFill ==
    /\ pc = "outer"
    /\ Len(log) < MaxLog
    /\ \E fill \in LedgerFills :
          LET exc == FillRaises(latest_symbol_data, fill)
          IN  /\ fault' = exc
              /\ pc' = IF exc = "none" THEN "outer" ELSE "crashed"
              /\ current_holdings' =
                     IF exc = "none"
                     THEN UpdateHoldingsFromFill(current_holdings,
                                                 latest_symbol_data, fill)
                     ELSE current_holdings
              /\ current_positions' =
                     IF exc = "none"
                     THEN UpdatePositionsFromFill(current_positions, fill)
                     ELSE current_positions
              /\ event' = fill
              /\ log' = Append(log, fill)
    /\ UNCHANGED <<events, feed, all_position, all_holdings, gateway,
                   nsignals, reply, probe>>

NextLedger == LedgerUpdateBars \/ LedgerUpdateTimeindex \/ LedgerUpdateFill

SpecLedger == Init /\ [][NextLedger]_vars

\* ------------------------------------------- the ledger over any DataHandler
\* NaivePortfolio takes its bars from a DataHandler, the abstract class of
\* data.py:14-47, whose get_latest_bars returns "fewer if less bars are
\* available".  The CSV handler gives every symbol equally many bars; a
\* handler that receives the symbols' bars one at a time (a live one) does
\* not.  Here the bars of the files arrive symbol by symbol, and the caller
\* hands the ledger Market events at any moment.
DataHandlerProduces ==
    /\ pc = "outer"
    /\ \E s \in Range(symbol_list) :
          /\ symbol_data[s] # <<>>
          /\ latest_symbol_data' =
                 [latest_symbol_data EXCEPT
                     ![s] = Append(@, GetNewBar(s, Head(symbol_data[s])))]
          /\ symbol_data' = [symbol_data EXCEPT ![s] = Tail(@)]
    /\ UNCHANGED <<pc, event, events, fault, csv, symbol_list,
                   continue_backtest, ledger, gateway, nsignals, reply, log,
                   probe>>

NextAnyHandler == DataHandlerProduces \/ LedgerUpdateTimeindex

SpecAnyHandler == Init /\ [][NextAnyHandler]_vars

\* --------------------------------------------- the constructors on their own
\* A producer that calls SignalEvent and OrderEvent with arguments of its own
\* choosing and puts what it gets on the queue, and a loop that takes the
\* events off.  An assertion that fails ends the producer.
SignalTypesTried == {"LONG", "SHORT", "EXIT", "HOLD"}
OrderTypesTried  == {"MKT", "LMT", "STP"}
DirectionsTried  == {"BUY", "SELL", "HOLD"}
QuantitiesTried  == {PyInt(100), PyInt(0), PyInt(-100), PyFloat(1500)}

CallSignalEvent ==
    /\ pc = "outer"
    /\ call = None
    /\ Len(events) < MaxQueue
    /\ \E t \in SignalTypesTried :
          call' = [type |-> "SignalEvent", symbol |-> symbol_list[1],
                   datetime |-> StartDate, signal_type |-> t]
    /\ ret' = None
    /\ UNCHANGED <<pc, event, events, fault, feed, ledger, gateway, nsignals,
                   reply, log>>

CallOrderEvent ==
    /\ pc = "outer"
    /\ call = None
    /\ Len(events) < MaxQueue
    /\ \E k \in OrderTypesTried, q \in QuantitiesTried, d \in DirectionsTried :
          call' = [type |-> "OrderEvent", symbol |-> symbol_list[1],
                   order_type |-> k, quantity |-> q, direction |-> d]
    /\ ret' = None
    /\ UNCHANGED <<pc, event, events, fault, feed, ledger, gateway, nsignals,
                   reply, log>>

\* Whether the constructor called runs through its assertions.
ConstructorAccepts(c) ==
    IF c.type = "SignalEvent" THEN SignalEventAccepts(c.signal_type)
    ELSE OrderEventAsserts(c.order_type, c.quantity, c.direction)

\* The event the constructor called makes.
Constructed(c) ==
    IF c.type = "SignalEvent"
    THEN SignalEvent(c.symbol, c.datetime, c.signal_type)
    ELSE OrderEvent(c.symbol, c.order_type, c.quantity.milli \div 1000,
                    c.direction)

\* events.put(SignalEvent(..)) or events.put(OrderEvent(..)): the constructor
\* runs, and the put only if it returned.
ConstructAndPut ==
    /\ pc = "outer"
    /\ call # None
    /\ call.type \in {"SignalEvent", "OrderEvent"}
    /\ call' = None
    /\ IF ConstructorAccepts(call)
       THEN /\ ret' = Returned(Constructed(call))
            /\ events' = Append(events, Constructed(call))
            /\ UNCHANGED <<pc, fault>>
       ELSE /\ ret' = Raised("AssertionError")
            /\ fault' = "AssertionError"
            /\ pc' = "crashed"
            /\ UNCHANGED events
    /\ UNCHANGED <<event, feed, ledger, gateway, nsignals, reply, log>>

\* main.py:19, event = events.get(False)
TakeEvent ==
    /\ pc = "outer"
    /\ events # <<>>
    /\ event' = Head(events)
    /\ events' = Tail(events)
    /\ UNCHANGED <<pc, fault, feed, ledger, gateway, nsignals, reply, log,
                   probe>>

InitEvents == InitWith([s \in Symbols |-> {}], <<"A">>)

NextEvents ==
    CallSignalEvent \/ CallOrderEvent \/ ConstructAndPut \/ TakeEvent

SpecEvents == InitEvents /\ [][NextEvents]_vars

\* ------------------------------------------- performance.py on its own
\* A caller that hands the functions of performance.py series and
\* parameters of its own choosing, one call in a run.
RECURSIVE SeqsUpTo(_, _)
SeqsUpTo(S, n) ==
    IF n = 0 THEN {<<>>}
    ELSE LET shorter == SeqsUpTo(S, n - 1)
         IN  shorter \cup {Append(q, x) :
                              q \in {r \in shorter : Len(r) = n - 1}, x \in S}

\* Returns of -1%, 0 and 1%; equities of 0.9 to 1.2.
ReturnsTried  == {-10, 0, 10}
EquitiesTried == {900, 1000, 1100, 1200}
RatesTried    == {-500, 0, 500, 1000, 1500}
PeriodsTried  == {"Daily", "Hour", "Minute"}

SeriesOf(values) ==
    {PyList(values), PdSeries("range", values), PdSeries("datetime", values)}

CallGetSharpeRatio ==
    /\ pc = "outer"
    /\ call = None
    /\ ret = None
    /\ \E values \in SeqsUpTo(ReturnsTried, MaxLen - 1) :
       \E returns \in SeriesOf(values) :
       \E risk_free \in RatesTried, periods \in PeriodsTried :
          call' = [type |-> "get_sharpe_ratio", returns |-> returns,
                   risk_free |-> risk_free, periods |-> periods]
    /\ UNCHANGED <<pc, event, events, fault, feed, ledger, gateway, nsignals,
                   reply, log, ret>>

CallCreateDrawdowns ==
    /\ pc = "outer"
    /\ call = None
    /\ ret = None
    /\ \E values \in SeqsUpTo(EquitiesTried, MaxLen) :
       \E equity_curve \in SeriesOf(values) :
          call' = [type |-> "create_drawdowns", equity_curve |-> equity_curve]
    /\ UNCHANGED <<pc, event, events, fault, feed, ledger, gateway, nsignals,
                   reply, log, ret>>

CallGetMaxDrawdowns ==
    /\ pc = "outer"
    /\ call = None
    /\ ret = None
    /\ \E values \in SeqsUpTo(EquitiesTried, MaxLen) :
       \E equity_curve \in SeriesOf(values) :
          call' = [type |-> "get_max_drawdowns", equity_curve |-> equity_curve]
    /\ UNCHANGED <<pc, event, events, fault, feed, ledger, gateway, nsignals,
                   reply, log, ret>>

\* The function called runs and returns or raises.
PerformanceReturns ==
    /\ pc = "outer"
    /\ call # None
    /\ call.type \in {"get_sharpe_ratio", "create_drawdowns",
                      "get_max_drawdowns"}
    /\ ret' = IF call.type = "get_sharpe_ratio"
              THEN GetSharpeRatio(call.returns, call.risk_free, call.periods)
              ELSE IF call.type = "create_drawdowns"
              THEN CreateDrawdowns(call.equity_curve)
              ELSE GetMaxDrawdowns(call.equity_curve)
    /\ call' = None
    /\ UNCHANGED <<pc, event, events, fault, feed, ledger, gateway, nsignals,
                   reply, log>>

NextPerformance ==
    \/ CallGetSharpeRatio
    \/ CallCreateDrawdowns
    \/ CallGetMaxDrawdowns
    \/ PerformanceReturns

SpecPerformance == InitEvents /\ [][NextPerformance]_vars

\* ------------------------------------------------------------ the claims
\* Python's == on two floats: a NaN equals nothing, itself included.
FEq(a, b) == a # NaN /\ b # NaN /\ a = b

\* The sum of a holdings row's per-symbol market values.
RECURSIVE SumValues(_, _, _)
SumValues(row, list, i) ==
    IF i > Len(list) THEN Num(0)
    ELSE FAdd(row[list[i]], SumValues(row, list, i + 1))

\* A step of the main thread that takes an event of the given type off the
\* queue (a step of the connection's thread counts a message).
Dispatches(type) ==
    /\ pc = "inner"
    /\ events # <<>>
    /\ Head(events).type = type
    /\ msgs' = msgs

\* A step of the main thread that calls update_bars.
Advances == pc = "outer" /\ pc' = "inner"

UnionIndex(files, list) == Sorted(UNION {files[s] : s \in Range(list)})

LastBars(seen, n) == SubSeq(seen, Len(seen) - n + 1, Len(seen))

C8_UntrackedReturnsEmpty ==
    [][(reply' # reply /\ reply'.symbol \notin DOMAIN latest_symbol_data) =>
          /\ reply'.value = ListReturn(<<>>)
          /\ UNCHANGED feed]_vars

\* The order the naive policy sizes for a signal, by its four cases.
SizedOrder(sig, pos) ==
    IF sig.signal_type = "EXIT"
    THEN OrderEvent(sig.symbol, "MKT", Abs(pos),
                    IF pos > 0 THEN "SELL" ELSE "BUY")
    ELSE OrderEvent(sig.symbol, "MKT", (sig.strength * 100) \div 1000,
                    IF sig.signal_type = "LONG" THEN "BUY" ELSE "SELL")

\* A signal that matches no sizing case: LONG or SHORT with a non-zero
\* position, EXIT with a zero position.
NoSizingCase(sig, pos) ==
    \/ sig.signal_type \in {"LONG", "SHORT"} /\ pos # 0
    \/ sig.signal_type = "EXIT" /\ pos = 0

\* C9: the signal handler, given any Signal, raises nothing and, when the
\* signal matches a sizing case, puts the order the naive policy sizes.
C9_NaiveSizing ==
    [][Dispatches("SIGNAL") =>
          LET sig == Head(events)
          IN  /\ fault' = "none"
              /\ ~NoSizingCase(sig, current_positions[sig.symbol]) =>
                     /\ events' # <<>>
                     /\ events'[Len(events')] =
                            SizedOrder(sig, current_positions[sig.symbol])]_vars

\* What the queue holds after the dispatch of a Signal: the events that
\* were behind it, and what the handler put.
SignalPut(item) == events' = Append(Tail(events), item)

\* C10: the signal handler, when it raises nothing, puts exactly one item
\* on the queue for the Signal: an Order when the signal matches a sizing
\* case, and None when it matches none; when it raises it puts nothing.
\* The loop takes the None off the queue and drops it, changing nothing
\* else.
C10_OneItemPerSignal ==
    [][/\ Dispatches("SIGNAL") =>
             IF fault' # "none" THEN events' = Tail(events)
             ELSE LET sig == Head(events)
                  IN  IF NoSizingCase(sig, current_positions[sig.symbol])
                      THEN SignalPut(None)
                      ELSE /\ Len(events') = Len(events)
                           /\ SignalPut(events'[Len(events')])
                           /\ events'[Len(events')].type = "ORDER"
       /\ Dispatches("NoneType") =>
             /\ events' = Tail(events)
             /\ UNCHANGED <<pc, fault, feed, ledger, gateway>>]_vars

\* C10 as the claim has it: after the handling of a Signal that matches no
\* sizing case the queue holds what it held behind the Signal.
C10_NothingPutWithoutCase ==
    [][(/\ Dispatches("SIGNAL")
        /\ fault' = "none"
        /\ NoSizingCase(Head(events),
                        current_positions[Head(events).symbol])) =>
          events' = Tail(events)]_vars

\* C10: a Signal that matched no sizing case was handled, and the None the
\* handler put for it is the last item of the queue.
C10_NonePut ==
    /\ event.type = "SIGNAL"
    /\ fault = "none"
    /\ "strength" \in DOMAIN event
    /\ NoSizingCase(event, current_positions[event.symbol])
    /\ events # <<>>
    /\ events[Len(events)] = None

\* The signed quantity of a fill: +quantity for BUY, -quantity for SELL.
FillDelta(fill) ==
    IF fill.direction = "BUY" THEN fill.quantity ELSE 0 - fill.quantity

RECURSIVE SeenAfter(_, _, _)
SeenAfter(data, latest, k) ==
    IF k = 0 THEN latest
    ELSE SeenAfter(UpdateBarsData(data), UpdateBarsLatest(data, latest), k - 1)

SeenAtMarket(k) ==
    SeenAfter(OpenConvertCsvFiles(csv, symbol_list),
              [s \in Range(symbol_list) |-> <<>>], k)

\* A freshly constructed ledger, and the ledger after it is handed one more
\* event, the feed standing at the bar of the last Market event handed in.
FreshLedger ==
    [current_positions |-> ZeroDict(symbol_list),
     current_holdings  |-> ConstructCurrentHoldings(symbol_list),
     all_position      |-> ConstructAllPositions(symbol_list),
     all_holdings      |-> ConstructAllHoldings(symbol_list),
     markets           |-> 0]

Handed(l, e) ==
    IF e.type = "MARKET"
    THEN LET out == UpdateTimeindex(SeenAtMarket(l.markets + 1), symbol_list,
                                    l.current_positions, l.current_holdings,
                                    l.all_position, l.all_holdings)
         IN  [l EXCEPT !.all_position = out.all_position,
                       !.all_holdings = out.all_holdings,
                       !.markets = @ + 1]
    ELSE IF e.type = "FILL" /\ FillRaises(SeenAtMarket(l.markets), e) = "none"
    THEN [l EXCEPT !.current_holdings =
                       UpdateHoldingsFromFill(@, SeenAtMarket(l.markets), e),
                   !.current_positions = UpdatePositionsFromFill(@, e)]
    ELSE l

RECURSIVE Replay(_, _)
Replay(seq, n) == IF n = 0 THEN FreshLedger ELSE Handed(Replay(seq, n - 1), seq[n])

FillsOf(seq) == SelectSeq(seq, LAMBDA e : e.type = "FILL")

SomeSymbolWithoutBar ==
    \E s \in Range(symbol_list) : latest_symbol_data[s] = <<>>

\* C14: a time-index update made while some tracked symbol has no bar yet
\* raises an error and appends no row to the holdings series, so no market
\* value, zero or other, is recorded for that symbol.
C14_NoBarFails ==
    [][(/\ pc = "outer"
        /\ log' = Append(log, MarketEvent)
        /\ SomeSymbolWithoutBar)
       => /\ fault' # "none"
          /\ all_holdings' = all_holdings]_vars

\* A time-index update has just failed for want of a bar.
C14_FailedWithoutBar ==
    /\ pc = "crashed"
    /\ fault = "IndexError"
    /\ log # <<>>
    /\ log[Len(log)] = MarketEvent
    /\ SomeSymbolWithoutBar
    /\ Len(all_holdings) = 1

\* The arguments of a constructor call that the event classes must refuse.
InvalidArguments(c) ==
    \/ /\ c.type = "SignalEvent"
       /\ c.signal_type \notin {"LONG", "SHORT", "EXIT"}
    \/ /\ c.type = "OrderEvent"
       /\ \/ c.order_type \notin {"MKT", "LMT"}
          \/ c.direction \notin {"BUY", "SELL"}
          \/ c.quantity.milli < 0
          \/ ~c.quantity.int

\* A Signal or an Order as the handlers expect it.
ValidEvent(e) ==
    /\ e.type = "SIGNAL" => e.signal_type \in {"LONG", "SHORT", "EXIT"}
    /\ e.type = "ORDER" => /\ e.order_type \in {"MKT", "LMT"}
                           /\ e.direction \in {"BUY", "SELL"}
                           /\ e.quantity >= 0

\* C15: constructing a Signal whose direction is not LONG, SHORT or EXIT, or
\* an Order whose kind is not MKT or LMT, whose side is not BUY or SELL, or
\* whose quantity is negative or not an integer, raises and puts nothing on
\* the queue; so every Signal and Order on the queue, and every one the loop
\* takes off it, is valid.
C15_InvalidEventsRejected ==
    [][/\ (call # None /\ call' = None /\ InvalidArguments(call))
          => /\ fault' = "AssertionError"
             /\ ret' = Raised("AssertionError")
             /\ events' = events
       /\ \A i \in DOMAIN events' : ValidEvent(events'[i])
       /\ ValidEvent(event')]_vars

\* A constructor has refused its arguments while valid events were queued.
C15_Rejected ==
    /\ pc = "crashed"
    /\ ret = Raised("AssertionError")
    /\ events # <<>>
    /\ \E i \in DOMAIN events : events[i].type = "ORDER"

\* A step in which the function of performance.py named returns or raises.
Returns(name) == call # None /\ call.type = name /\ call' = None

AllEqual(values) == \A i, j \in DOMAIN values : values[i] = values[j]

\* C16: get_sharpe_ratio called on a non-empty returns series whose values
\* are all equal (standard deviation zero) raises an error and returns no
\* value.
C16_ZeroDeviationFails ==
    [][(/\ Returns("get_sharpe_ratio")
        /\ call.returns.values # <<>>
        /\ AllEqual(call.returns.values))
       => ret'.exc # "none"]_vars

\* C17: get_sharpe_ratio raises an error and returns no value when the
\* returns series is empty and when risk_free lies outside [0,1];
\* get_max_drawdowns raises an error on an empty equity curve.
C17_BadInputsFail ==
    [][/\ (/\ Returns("get_sharpe_ratio")
           /\ \/ call.returns.values = <<>>
              \/ call.risk_free < 0
              \/ call.risk_free > 1000)
          => /\ ret'.exc # "none"
             /\ ret'.value = None
       /\ (/\ Returns("get_max_drawdowns")
           /\ call.equity_curve.values = <<>>)
          => /\ ret'.exc # "none"
             /\ ret'.value = None]_vars

\* get_sharpe_ratio has refused a risk-free rate.
C17_RateRefused ==
    /\ call = None
    /\ ret = Raised("AssertionError")

\* The drawdown series as C18 describes it: the high-water mark over the
\* first k points, the drawdown and the duration at point k.
RECURSIVE RunningMax(_, _)
RunningMax(values, k) ==
    IF k = 1 THEN values[1]
    ELSE LET before == RunningMax(values, k - 1)
         IN  IF before >= values[k] THEN before ELSE values[k]

PeakDrawdown(values, k) == RunningMax(values, k) - values[k]

RECURSIVE PeakDuration(_, _)
PeakDuration(values, k) ==
    IF PeakDrawdown(values, k) = 0 THEN 0
    ELSE PeakDuration(values, k - 1) + 1

PeakPairs(values) ==
    [k \in DOMAIN values |->
        <<PeakDrawdown(values, k), Num(PeakDuration(values, k))>>]

\* C18: for every non-empty equity curve, a pandas Series as the functions
\* document it, create_drawdowns yields, at each
\* point, the drawdown from the running maximum of the curve and the number
\* of points since the drawdown was last 0, and get_max_drawdowns returns
\* the largest drawdown with the duration at that point.
C18_DrawdownsFromRunningMax ==
    [][/\ (/\ Returns("create_drawdowns")
           /\ call.equity_curve.kind = "Series"
           /\ call.equity_curve.values # <<>>)
          => /\ ret'.exc = "none"
             /\ ret'.value = SortedByFirst(PeakPairs(call.equity_curve.values))
       /\ (/\ Returns("get_max_drawdowns")
           /\ call.equity_curve.kind = "Series"
           /\ call.equity_curve.values # <<>>)
          => /\ ret'.exc = "none"
             /\ ret'.value =
                    SortedByFirst(PeakPairs(call.equity_curve.values))[1]]_vars

\* The queue and the fill dictionary after the broker's openOrder and then
\* its Filled orderStatus for a placed order have gone through
\* _reply_handler, from the present state.
AfterOpenAndFilled(placed, price) ==
    LET open   == OpenOrderMsg(placed)
        status == OrderStatusMsg(placed, "Filled", price)
        dict1  == ReplyHandlerDict(fill_dict, order_id, open)
        queue1 == ReplyHandlerQueue(events, fill_dict, order_id, open)
    IN  [fill_dict |-> ReplyHandlerDict(dict1, order_id, status),
         events    |-> ReplyHandlerQueue(queue1, dict1, order_id, status)]

\* A Fill has been put for the order already.
HasFill(placed) ==
    /\ placed.orderId \in DOMAIN fill_dict
    /\ fill_dict[placed.orderId].filled

RecordSet(s) ==
    LET rows == OpenConvertCsvFiles(csv, symbol_list)[s]
    IN  [k \in DOMAIN rows |-> GetNewBar(s, rows[k])]

IsPrefix(short, long) ==
    /\ Len(short) <= Len(long)
    /\ \A k \in DOMAIN short : short[k] = long[k]

BooksFill ==
    /\ Len(log') = Len(log) + 1
    /\ log'[Len(log')].type = "FILL"
    /\ fault' = "none"

MarketsOf(seq) == SelectSeq(seq, LAMBDA e : e.type = "MARKET")

KeepsRows(before, after) ==
    /\ Len(before) <= Len(after)
    /\ \A i \in DOMAIN before : after[i] = before[i]

Ascending(series) ==
    \A i \in DOMAIN series :
        i > 1 => series[i - 1]["datetime"] <= series[i]["datetime"]

====
